---- MODULE Spec2Model ----
(***************************************************************************)
(* Model of the connection pool of hlandau/js.SQLAPI (src/Pool.ts).         *)
(*                                                                         *)
(* The pool runs on a single-threaded event loop.  Every `await` is a      *)
(* suspension point; the code between two suspension points runs           *)
(* atomically.  Each action below is one such synchronous segment of one   *)
(* caller (or of the driver resolving one of its promises).                *)
(*                                                                         *)
(* The driver (LLDB.ts interfaces, implemented outside src/) is the        *)
(* environment: each of its promises resolves at some later step, with     *)
(* success or failure chosen nondeterministically.                         *)
(***************************************************************************)
EXTENDS Integers, FiniteSets, Sequences, TLC

\* ---------------------------------------------------------------- bounds
NumCallers == 2     \* concurrent callers of the pool
MaxConnID  == 2     \* driver connections the driver will ever grant
MaxRows    == 1     \* rows a row stream holds

\* ------------------------------------------------------------- constants
Undefined == -1     \* an option that is absent (`undefined`)
NoConn    == 0      \* "no connection" (`null`); curConnID starts at 0, ids at 1

Procs   == 1 .. NumCallers
ConnIDs == 1 .. MaxConnID
Ops     == {"exec", "query", "begin"}

\* Values IPoolOptions.idleConnections / maxConnections are drawn from.
IdleChoices == {Undefined, 0}
MaxChoices  == {Undefined, 1, 2}

VARIABLES
  pool,       \* the DBPool object: options, both maps, both counters, the
              \* per-record flags, the semaphore, deadError; and the log of
              \* close() calls the pool has issued to driver connections
  curConnID,  \* module-level connection id counter
  proc,       \* per caller: where its call stands, and the adapter it holds
  faults      \* invariant-violation errors that were thrown

vars == <<pool, curConnID, proc, faults>>

Min(S) == CHOOSE x \in S : \A y \in S : x <= y

\* ------------------------------------------------------------- Semaphore
\* Mutant of signal: wakes the waiter registered first and keeps the rest.
signalOne(S) ==
  IF S.waiters = {} THEN S ELSE [S EXCEPT !.waiters = @ \ {Min(S.waiters)}]

\* Semaphore.signal: call every waiter's resolve, then forget them.
signal(S) == [S EXCEPT !.waiters = {}]

\* Semaphore.close
semaClose(S) == signal([S EXCEPT !.closed = TRUE])

\* Semaphore.wait by caller p: returns at once when closed, else registers
\* p's resolve callback.  p is suspended while p \in waiters.
wait(S, p) == IF S.closed THEN S ELSE [S EXCEPT !.waiters = @ \cup {p}]

\* ---------------------------------------------------------------- DBPool
\* DBPool constructor: option defaulting and clamping.
constructor(o) ==
  LET idle == IF o.idleConnections = Undefined THEN 1 ELSE o.idleConnections
      max  == IF o.maxConnections # Undefined /\ o.maxConnections < idle
              THEN idle ELSE o.maxConnections
  IN [options            |-> [idleConnections |-> idle, maxConnections |-> max],
      allConnections     |-> {},
      numConnections     |-> 0,
      idleConnections    |-> {},
      numIdleConnections |-> 0,
      checkedOut         |-> [c \in ConnIDs |-> FALSE],
      removed            |-> [c \in ConnIDs |-> FALSE],
      symConnInfo        |-> {},
      sema               |-> [waiters |-> {}, closed |-> FALSE],
      deadError          |-> FALSE,
      closeCalls         |-> [c \in ConnIDs |-> 0],
      closedInPool       |-> {}]

\* Mutant of __checkDead: never throws.
checkDeadNever(P) == FALSE

\* DBPool.__checkDead: TRUE when it throws the dead-pool error.
checkDead(P) == P.deadError

\* Mutant of close: also closes and removes the idle connections.
closeDrainsIdle(P) ==
  IF P.deadError THEN P
  ELSE [P EXCEPT !.deadError = TRUE, !.sema = semaClose(@),
                 !.allConnections     = @ \ P.idleConnections,
                 !.symConnInfo        = @ \ P.idleConnections,
                 !.numConnections     = @ - P.numIdleConnections,
                 !.idleConnections    = {},
                 !.numIdleConnections = 0,
                 !.removed    = [c \in ConnIDs |-> @[c] \/ c \in P.idleConnections],
                 !.closeCalls = [c \in ConnIDs |->
                                   IF c \in P.idleConnections THEN @[c] + 1 ELSE @[c]]]

\* DBPool.close
close(P) ==
  IF P.deadError THEN P
  ELSE [P EXCEPT !.deadError = TRUE, !.sema = semaClose(@)]

\* DBPool.__addConnection with the id ++curConnID produced.
addConnection(P, id) ==
  [P EXCEPT !.checkedOut[id]     = FALSE,
            !.removed[id]        = FALSE,
            !.symConnInfo        = @ \cup {id},
            !.allConnections     = @ \cup {id},
            !.idleConnections    = @ \cup {id},
            !.numConnections     = @ + 1,
            !.numIdleConnections = @ + 1]

\* Mutant of __removeConnection: the idle counter is not decremented.
removeConnectionKeepsIdleCount(P, id) ==
  [P EXCEPT !.removed[id]        = TRUE,
            !.numConnections     = @ - 1,
            !.idleConnections    = @ \ {id},
            !.allConnections     = @ \ {id},
            !.symConnInfo        = @ \ {id}]

\* DBPool.__removeConnection
removeConnection(P, id) ==
  [P EXCEPT !.removed[id]        = TRUE,
            !.numIdleConnections = IF id \in P.idleConnections THEN @ - 1 ELSE @,
            !.numConnections     = @ - 1,
            !.idleConnections    = @ \ {id},
            !.allConnections     = @ \ {id},
            !.symConnInfo        = @ \ {id}]

\* Mutant of __tryPopConnection: the record popped is left in the idle map.
tryPopConnectionNoDelete(P) ==
  IF P.idleConnections = {}
  THEN [pool |-> P, conn |-> NoConn, fault |-> "none"]
  ELSE LET id == Min(P.idleConnections)
       IN IF P.checkedOut[id]
          THEN [pool |-> P, conn |-> NoConn, fault |-> "popCheckedOut"]
          ELSE [pool |-> [P EXCEPT !.checkedOut[id] = TRUE,
                                   !.numIdleConnections = @ - 1],
                conn |-> id, fault |-> "none"]

\* DBPool.__tryPopConnection.  `for (const id in ...)` visits integer-like
\* keys in ascending order, so the first key is the least id.
\* conn = NoConn is the null return; fault is the thrown invariant error.
tryPopConnection(P) ==
  IF P.idleConnections = {}
  THEN [pool |-> P, conn |-> NoConn, fault |-> "none"]
  ELSE LET id == Min(P.idleConnections)
           P1 == [P EXCEPT !.idleConnections = @ \ {id},
                           !.numIdleConnections = @ - 1]
       IN IF P.checkedOut[id]
          THEN [pool |-> P1, conn |-> NoConn, fault |-> "popCheckedOut"]
          ELSE [pool |-> [P1 EXCEPT !.checkedOut[id] = TRUE],
                conn |-> id, fault |-> "none"]

\* DBPool.__trimIdle.  The close of the removed connection is not awaited.
\* (With an empty idle map and a positive counter the source loop would not
\* terminate; the model stops there.)
\* `info.conn.close()` as the pool issues it: closeCalls counts the close
\* calls the driver connection received, closedInPool collects the ids whose
\* record was still in allConnections or idleConnections at that call.
connClose(P, id) ==
  [P EXCEPT !.closeCalls[id] = @ + 1,
            !.closedInPool   =
              IF id \in P.allConnections \cup P.idleConnections
              THEN @ \cup {id} ELSE @]

\* Mutant of __trimIdle: stops one record above the idle target.
RECURSIVE trimIdleOffByOne(_)
trimIdleOffByOne(P) ==
  IF P.numIdleConnections > P.options.idleConnections + 1
     /\ P.idleConnections # {}
  THEN LET id == Min(P.idleConnections)
       IN trimIdleOffByOne(connClose(removeConnection(P, id), id))
  ELSE P

RECURSIVE trimIdle(_)
trimIdle(P) ==
  IF P.numIdleConnections > P.options.idleConnections /\ P.idleConnections # {}
  THEN LET id == Min(P.idleConnections)
       IN trimIdle(connClose(removeConnection(P, id), id))
  ELSE P

\* Mutant of __returnConnection: the gate is not signalled.
returnConnectionNoSignal(P, c) ==
  IF c \notin P.symConnInfo
  THEN [pool |-> P, fault |-> "notMember"]
  ELSE IF ~P.checkedOut[c]
  THEN [pool |-> P, fault |-> "notCheckedOut"]
  ELSE [pool |-> trimIdle([P EXCEPT !.checkedOut[c]       = FALSE,
                                    !.idleConnections    = @ \cup {c},
                                    !.numIdleConnections = @ + 1]),
        fault |-> "none"]

\* DBPool.__returnConnection
returnConnection(P, c) ==
  IF c \notin P.symConnInfo
  THEN [pool |-> P, fault |-> "notMember"]
  ELSE IF ~P.checkedOut[c]
  THEN [pool |-> P, fault |-> "notCheckedOut"]
  ELSE [pool |-> trimIdle([P EXCEPT !.checkedOut[c]       = FALSE,
                                    !.idleConnections    = @ \cup {c},
                                    !.numIdleConnections = @ + 1,
                                    !.sema               = signal(@)]),
        fault |-> "none"]

\* Mutant of the `while` condition: ctx.error is not consulted.
whileCondNoCtx(P, cancelled) ==
  /\ P.options.maxConnections # Undefined
  /\ P.numConnections >= P.options.maxConnections

\* The `while` condition of DBPool.__popConnection.
whileCond(P, cancelled) ==
  /\ P.options.maxConnections # Undefined
  /\ P.numConnections >= P.options.maxConnections
  /\ ~cancelled

\* One synchronous segment of DBPool.__popConnection, entered at a
\* __tryPopConnection call (the first one, or the one after the gate wait):
\* pop; else suspend on the gate while whileCond holds; else fail when dead
\* or cancelled; else start the driver connect.  w is caller p's record.
\* A caller with pc = "waiting" is suspended while it is in sema.waiters and
\* has its continuation queued once it is not.  iter is the parity of the
\* loop iterations that found the gate closed.
popConnection(P, p, w) ==
  LET r == tryPopConnection(P)
  IN IF r.fault # "none"
     THEN [pool |-> r.pool, fault |-> r.fault,
           proc |-> [w EXCEPT !.pc = "done", !.result = r.fault]]
     ELSE IF r.conn # NoConn
     THEN [pool |-> r.pool, fault |-> "none",
           proc |-> [w EXCEPT !.pc = "driver", !.conn = r.conn]]
     ELSE IF whileCond(P, w.ctxErr)
     THEN [pool |-> [P EXCEPT !.sema = wait(@, p)], fault |-> "none",
           proc |-> [w EXCEPT !.pc = "waiting",
                              !.iter = IF P.sema.closed THEN 1 - @ ELSE @]]
     ELSE IF checkDead(P)
     THEN [pool |-> P, fault |-> "none",
           proc |-> [w EXCEPT !.pc = "done", !.result = "dead"]]
     ELSE IF w.ctxErr
     THEN [pool |-> P, fault |-> "none",
           proc |-> [w EXCEPT !.pc = "done", !.result = "ctx"]]
     ELSE [pool |-> P, fault |-> "none",
           proc |-> [w EXCEPT !.pc = "connecting"]]

\* The tail of DBPool.__popConnection after __openAdditionalConnection.
popAfterOpen(P, w) ==
  LET r == tryPopConnection(P)
  IN IF r.fault # "none"
     THEN [pool |-> r.pool, fault |-> r.fault,
           proc |-> [w EXCEPT !.pc = "done", !.result = r.fault]]
     ELSE IF r.conn # NoConn
     THEN [pool |-> r.pool, fault |-> "none",
           proc |-> [w EXCEPT !.pc = "driver", !.conn = r.conn]]
     ELSE [pool |-> r.pool, fault |-> "cannotOpen",
           proc |-> [w EXCEPT !.pc = "done", !.result = "cannotOpen"]]

\* Mutant of the `finally` blocks: the call settles, the connection is not
\* handed back.
returnAndSettleNoReturn(P, w, res) ==
  [pool |-> P, fault |-> "none",
   proc |-> [w EXCEPT !.pc = "done", !.result = res]]

\* Mutant of the `finally` blocks: a driver error removes the connection
\* from the pool instead of returning it.
returnAndSettleRemoveOnError(P, w, res) ==
  IF res = "driverErr"
  THEN [pool |-> connClose([removeConnection(P, w.conn)
                              EXCEPT !.checkedOut[w.conn] = FALSE], w.conn),
        fault |-> "none",
        proc |-> [w EXCEPT !.pc = "done", !.result = res]]
  ELSE LET r == returnConnection(P, w.conn)
       IN [pool |-> r.pool, fault |-> r.fault,
           proc |-> [w EXCEPT !.pc = "done",
                              !.result = IF r.fault # "none" THEN r.fault ELSE res]]

\* The `finally` of DBPool.__withConnection and the `if (!ok)` finally of
\* query/begin: hand the connection back and settle the call.
returnAndSettle(P, w, res) ==
  LET r == returnConnection(P, w.conn)
  IN [pool |-> r.pool, fault |-> r.fault,
      proc |-> [w EXCEPT !.pc = "done",
                         !.result = IF r.fault # "none" THEN r.fault ELSE res]]

\* ----------------------------------------------------- DBPoolRowsWrapper
\* Mutant of __checkStatus: the done latch is not consulted.
checkStatusNoLatch(P, w) ==
  IF w.uDone
  THEN LET r == returnConnection(P, w.conn)
       IN [pool |-> r.pool, fault |-> r.fault,
           proc |-> [w EXCEPT !.done = TRUE, !.returnCalls = @ + 1]]
  ELSE [pool |-> P, fault |-> "none", proc |-> w]

\* DBPoolRowsWrapper.__checkStatus.  returnCalls counts the runs of the
\* adapter's callback, i.e. of __returnConnection for this checkout.
checkStatus(P, w) ==
  IF w.uDone /\ ~w.done
  THEN LET r == returnConnection(P, w.conn)
       IN [pool |-> r.pool, fault |-> r.fault,
           proc |-> [w EXCEPT !.done = TRUE, !.returnCalls = @ + 1]]
  ELSE [pool |-> P, fault |-> "none", proc |-> w]

\* ------------------------------------------------------- DBPoolTxWrapper
\* Mutant of __check: never throws.
checkNever(w) == FALSE

\* DBPoolTxWrapper.__check: TRUE when it throws the expired-handle error.
check(w) == w.returned

\* Mutant of __returnToPool: sets the latch, forgets the callback.
returnToPoolNoCallback(P, w) ==
  [pool |-> P, fault |-> "none", proc |-> [w EXCEPT !.returned = TRUE]]

\* Mutant of __returnToPool: the latch is not consulted.
returnToPoolNoLatch(P, w) ==
  LET r == returnConnection(P, w.conn)
  IN [pool |-> r.pool, fault |-> r.fault,
      proc |-> [w EXCEPT !.returned = TRUE, !.returnCalls = @ + 1]]

\* DBPoolTxWrapper.__returnToPool
returnToPool(P, w) ==
  IF w.returned
  THEN [pool |-> P, fault |-> "none", proc |-> w]
  ELSE LET r == returnConnection(P, w.conn)
       IN [pool |-> r.pool, fault |-> r.fault,
           proc |-> [w EXCEPT !.returned = TRUE, !.returnCalls = @ + 1]]

\* ----------------------------------------------------------------- state
\* A caller that is not inside a call and holds no adapter.
InitProc ==
  [pc |-> "idle", op |-> "none", ctxErr |-> FALSE, conn |-> NoConn,
   result |-> "none", iter |-> 0,
   uLeft |-> 0, uDone |-> FALSE,          \* the driver's row stream
   done |-> FALSE, returned |-> FALSE,    \* the adapters' latches
   pending |-> {},                        \* driver calls of the adapter in flight
   last |-> "none",                       \* outcome of the adapter call settled last
   returnCalls |-> 0]

Init ==
  /\ \E i \in IdleChoices, m \in MaxChoices :
       pool = constructor([idleConnections |-> i, maxConnections |-> m])
  /\ curConnID = 0
  /\ proc = [p \in Procs |-> InitProc]
  /\ faults = {}

\* Install the outcome o of a segment run by caller p.
Apply(o, p) ==
  /\ pool' = o.pool
  /\ proc' = [proc EXCEPT ![p] = o.proc]
  /\ faults' = IF o.fault = "none" THEN faults ELSE faults \cup {o.fault}

\* --------------------------------------------------------------- actions
\* DBPool.exec / query / begin up to the first suspension: __checkDead,
\* then __popConnection.  c: whether ctx is already cancelled.
CallWith(p, o, c) ==
  /\ proc[p].pc = "idle"
  /\ LET w == [proc[p] EXCEPT !.op = o, !.ctxErr = c]
     IN IF checkDead(pool)
        THEN Apply([pool |-> pool, fault |-> "none",
                    proc |-> [w EXCEPT !.pc = "done", !.result = "dead"]], p)
        ELSE Apply(popConnection(pool, p, w), p)
  /\ UNCHANGED curConnID

Call(p) == \E o \in Ops, c \in BOOLEAN : CallWith(p, o, c)

\* The continuation of `await this.__connectionAvailableSema.wait()`.
Resume(p) ==
  /\ proc[p].pc = "waiting"
  /\ p \notin pool.sema.waiters
  /\ Apply(popConnection(pool, p, proc[p]), p)
  /\ UNCHANGED curConnID

\* The caller's context is cancelled while its checkout is at the gate (the
\* only later point where __popConnection reads ctx.error).
Cancel(p) ==
  /\ proc[p].pc = "waiting"
  /\ ~proc[p].ctxErr
  /\ proc' = [proc EXCEPT ![p].ctxErr = TRUE]
  /\ UNCHANGED <<pool, curConnID, faults>>

\* The driver's connect settles: __openAdditionalConnection registers the
\* connection, or the error propagates out of the call.
ConnectResolve(p, ok) ==
  /\ proc[p].pc = "connecting"
  /\ ok => curConnID < MaxConnID
  /\ IF ok
     THEN /\ curConnID' = curConnID + 1
          /\ pool' = addConnection(pool, curConnID + 1)
          /\ proc' = [proc EXCEPT ![p].pc = "added"]
     ELSE /\ proc' = [proc EXCEPT ![p].pc = "done", ![p].result = "driverErr"]
          /\ UNCHANGED <<pool, curConnID>>
  /\ UNCHANGED faults

\* The continuation of `await this.__openAdditionalConnection(ctx)`.
AfterOpen(p) ==
  /\ proc[p].pc = "added"
  /\ Apply(popAfterOpen(pool, proc[p]), p)
  /\ UNCHANGED curConnID

\* The driver's exec / query / begin settles.  n: rows of the new stream.
DriverResolve(p, ok, n) ==
  /\ proc[p].pc = "driver"
  /\ LET w == proc[p]
     IN IF w.op = "exec"
        THEN Apply(returnAndSettle(pool, w, IF ok THEN "ok" ELSE "driverErr"), p)
        ELSE IF ~ok
        THEN Apply(returnAndSettle(pool, w, "driverErr"), p)
        ELSE IF w.op = "query"
        THEN Apply([pool |-> pool, fault |-> "none",
                    proc |-> [w EXCEPT !.pc = "rows", !.result = "ok",
                                       !.uLeft = n]], p)
        ELSE Apply([pool |-> pool, fault |-> "none",
                    proc |-> [w EXCEPT !.pc = "tx", !.result = "ok"]], p)
  /\ UNCHANGED curConnID

\* DBPool.close
PoolClose ==
  /\ pool' = close(pool)
  /\ UNCHANGED <<curConnID, proc, faults>>

\* DBPoolRowsWrapper.next: start the driver stream's next(), then
\* __checkStatus at once, before that promise settles.  The driver may
\* already know that the stream is exhausted when next() is called (eager).
RowsNext(p, eager) ==
  /\ proc[p].pc = "rows"
  /\ "next" \notin proc[p].pending
  /\ LET w == [proc[p] EXCEPT !.pending = @ \cup {"next"},
                              !.uDone = @ \/ (eager /\ proc[p].uLeft = 0)]
     IN Apply(checkStatus(pool, w), p)
  /\ UNCHANGED curConnID

\* The promise of the driver stream's next() settles: a row, or the end of
\* the stream, at which the driver stream is done.  The wrapper returned the
\* driver's promise itself, so no wrapper code runs here.
RowsNextResolve(p) ==
  /\ proc[p].pc = "rows"
  /\ "next" \in proc[p].pending
  /\ LET w == proc[p]
     IN proc' = [proc EXCEPT ![p] =
          IF ~w.uDone /\ w.uLeft > 0
          THEN [w EXCEPT !.pending = @ \ {"next"}, !.uLeft = @ - 1, !.last = "row"]
          ELSE [w EXCEPT !.pending = @ \ {"next"}, !.uDone = TRUE, !.last = "end"]]
  /\ UNCHANGED <<pool, curConnID, faults>>

\* DBPoolRowsWrapper.close up to `await this.__underlying.close()`.
RowsClose(p) ==
  /\ proc[p].pc = "rows"
  /\ "close" \notin proc[p].pending
  /\ proc' = [proc EXCEPT ![p].pending = @ \cup {"close"}]
  /\ UNCHANGED <<pool, curConnID, faults>>

\* The driver stream's close() has settled (the stream is done):
\* __checkStatus.
RowsCloseResolve(p) ==
  /\ proc[p].pc = "rows"
  /\ "close" \in proc[p].pending
  /\ LET w == [proc[p] EXCEPT !.pending = @ \ {"close"}, !.uDone = TRUE,
                              !.last = "closed"]
     IN Apply(checkStatus(pool, w), p)
  /\ UNCHANGED curConnID

\* DBPoolTxWrapper.commit / rollback / exec / query up to the driver call.
\* commit and rollback may overlap each other; the caller awaits an exec or
\* query on the handle before its next call (a driver connection runs one
\* command at a time).
TxKinds == {"commit", "rollback", "exec", "query"}

TxCall(p, k) ==
  /\ proc[p].pc = "tx"
  /\ k \notin proc[p].pending
  /\ proc[p].pending \cap {"exec", "query"} = {}
  /\ k \in {"exec", "query"} => proc[p].pending = {}
  /\ LET w == proc[p]
     IN proc' = [proc EXCEPT ![p] =
          IF k = "rollback"
          THEN IF w.returned THEN [w EXCEPT !.last = "noop"]
               ELSE [w EXCEPT !.pending = @ \cup {k}]
          ELSE IF check(w) THEN [w EXCEPT !.last = "expired"]
               ELSE [w EXCEPT !.pending = @ \cup {k}]]
  /\ UNCHANGED <<pool, curConnID, faults>>

\* Mutant of commit / rollback: __returnToPool runs in a `finally`, also
\* when the driver call failed.
TxResolveReturnsAlways(p, k, ok) ==
  /\ proc[p].pc = "tx"
  /\ k \in proc[p].pending
  /\ LET w == [proc[p] EXCEPT !.pending = @ \ {k},
                              !.last = IF ok THEN "ok" ELSE "driverErr"]
     IN IF k \in {"commit", "rollback"}
        THEN Apply(returnToPool(pool, w), p)
        ELSE Apply([pool |-> pool, fault |-> "none", proc |-> w], p)
  /\ UNCHANGED curConnID

\* The driver call of a transaction handle settles.  After a commit or
\* rollback that succeeded: __returnToPool.
TxResolve(p, k, ok) ==
  /\ proc[p].pc = "tx"
  /\ k \in proc[p].pending
  /\ LET w == [proc[p] EXCEPT !.pending = @ \ {k},
                              !.last = IF ok THEN "ok" ELSE "driverErr"]
     IN IF ok /\ k \in {"commit", "rollback"}
        THEN Apply(returnToPool(pool, w), p)
        ELSE Apply([pool |-> pool, fault |-> "none", proc |-> w], p)
  /\ UNCHANGED curConnID

Next ==
  \/ \E p \in Procs : Call(p)
  \/ \E p \in Procs : Resume(p)
  \/ \E p \in Procs : Cancel(p)
  \/ \E p \in Procs, ok \in BOOLEAN : ConnectResolve(p, ok)
  \/ \E p \in Procs : AfterOpen(p)
  \/ \E p \in Procs, ok \in BOOLEAN, n \in 0 .. MaxRows : DriverResolve(p, ok, n)
  \/ PoolClose
  \/ \E p \in Procs, eager \in BOOLEAN : RowsNext(p, eager)
  \/ \E p \in Procs : RowsNextResolve(p)
  \/ \E p \in Procs : RowsClose(p)
  \/ \E p \in Procs : RowsCloseResolve(p)
  \/ \E p \in Procs, k \in TxKinds : TxCall(p, k)
  \/ \E p \in Procs, k \in TxKinds, ok \in BOOLEAN : TxResolve(p, k, ok)

Spec == Init /\ [][Next]_vars

\* Promises the event loop is bound to settle or continue: a queued
\* continuation runs, and the driver settles each call made to it.  What the
\* callers do (new calls, cancel, close, next, commit ...) is not forced.
Fairness ==
  \A p \in Procs :
    /\ WF_vars(Resume(p))
    /\ WF_vars(\E ok \in BOOLEAN : ConnectResolve(p, ok))
    /\ WF_vars(AfterOpen(p))
    /\ WF_vars(\E ok \in BOOLEAN, n \in 0 .. MaxRows : DriverResolve(p, ok, n))
    /\ WF_vars(RowsNextResolve(p))
    /\ WF_vars(RowsCloseResolve(p))
    /\ WF_vars(\E k \in TxKinds, ok \in BOOLEAN : TxResolve(p, k, ok))

FairSpec == Spec /\ Fairness

\* ------------------------------------------------------------------ C1
\* Driver connections opened by the pool and not yet closed by it.
OpenConns == {c \in 1 .. curConnID : pool.closeCalls[c] = 0}

\* C1: when maxConnections is set, numConnections and the number of open
\* driver connections never exceed it.
C1_NeverExceedsMax ==
  pool.options.maxConnections # Undefined =>
    /\ pool.numConnections <= pool.options.maxConnections
    /\ Cardinality(OpenConns) <= pool.options.maxConnections

\* ------------------------------------------------------------------ C2
\* C2: a checkout that is at the Wait Gate when the pool is dead is released:
\* it fails with the dead-pool or the cancellation error (or, if a
\* connection is handed back meanwhile, leaves the gate with it); it does
\* not stay at the gate forever.
C2_CloseReleasesWaiters ==
  \A p \in Procs :
    (proc[p].pc = "waiting" /\ pool.deadError)
      ~> \/ proc[p].pc = "done" /\ proc[p].result \in {"dead", "ctx"}
         \/ proc[p].pc = "driver"

\* ------------------------------------------------------------------ C3
\* C3: once a next() of a row stream has reported the end of the stream, or
\* a close() of it has completed, the stream's connection has been returned.
C3_StreamEndReturns ==
  \A p \in Procs :
    (proc[p].pc = "rows" /\ proc[p].last \in {"end", "closed"})
      => proc[p].done /\ proc[p].returnCalls = 1

\* ------------------------------------------------------------------ C4
\* C4: the return callback of an adapter runs at most once.
C4_ReturnAtMostOnce ==
  \A p \in Procs : proc[p].returnCalls <= 1

\* A transaction whose connection is back while a second commit/rollback is
\* still in flight, beside a finished row stream with a close() in flight.
C4_Witness ==
  \E p, q \in Procs :
    /\ proc[p].pc = "tx" /\ proc[p].returned /\ proc[p].returnCalls = 1
    /\ proc[p].pending \cap {"commit", "rollback"} # {}
    /\ proc[q].pc = "rows" /\ proc[q].done /\ proc[q].returnCalls = 1
    /\ "close" \in proc[q].pending

\* ------------------------------------------------------------------ C5
\* The connection of an open transaction handle is checked out, in the pool
\* and not idle.
C5_HeldWhileOpen ==
  \A p \in Procs :
    (proc[p].pc = "tx" /\ ~proc[p].returned) =>
      /\ proc[p].conn \in pool.allConnections
      /\ proc[p].conn \notin pool.idleConnections
      /\ pool.checkedOut[proc[p].conn]
      /\ \A q \in Procs \ {p} :
           proc[q].pc \in {"driver", "rows", "tx"} /\ proc[q].conn = proc[p].conn
             => (proc[q].done \/ proc[q].returned)

\* The handle's latch flips exactly in the step in which the first commit or
\* rollback succeeds on the driver, and that step hands the connection back.
C5_ReturnedAtCompletion ==
  \A p \in Procs :
    proc[p].pc = "tx" =>
      /\ (proc'[p].returned # proc[p].returned) <=>
           /\ ~proc[p].returned
           /\ \E k \in {"commit", "rollback"} : TxResolve(p, k, TRUE)
      /\ (proc'[p].returned # proc[p].returned) =>
           /\ proc'[p].returnCalls = 1
           /\ ~pool'.checkedOut[proc[p].conn]
           /\ faults' = faults

\* C5: the connection of a transaction handle stays checked out while the
\* transaction is open, and is returned exactly when the first commit() or
\* rollback() succeeds on the driver.
C5_TxConnectionLifetime ==
  []C5_HeldWhileOpen /\ [][C5_ReturnedAtCompletion]_vars

\* A handle that ran exec/query and then returned its connection by a
\* successful commit or rollback.
C5_Witness ==
  \E p \in Procs :
    /\ proc[p].pc = "tx" /\ proc[p].returned /\ proc[p].last = "ok"
    /\ proc[p].pending = {}
    /\ ~pool.checkedOut[proc[p].conn]

\* ------------------------------------------------------------------ C6
\* C6: on a handle that has returned its connection, commit/exec/query fail
\* with the expired-handle error and rollback is a no-op; the call starts no
\* driver call, returns nothing, and leaves pool and gate as they are.
C6_ExpiredHandleInert ==
  [][\A p \in Procs, k \in TxKinds :
       (proc[p].returned /\ TxCall(p, k)) =>
         /\ proc'[p].last = (IF k = "rollback" THEN "noop" ELSE "expired")
         /\ proc'[p].pending = proc[p].pending
         /\ proc'[p].returnCalls = proc[p].returnCalls
         /\ pool' = pool
         /\ faults' = faults]_vars

\* begin, rollback, rollback: the second rollback was a no-op.
C6_Witness ==
  \E p \in Procs :
    /\ proc[p].pc = "tx" /\ proc[p].returned /\ proc[p].last = "noop"
    /\ proc[p].returnCalls = 1

\* ------------------------------------------------------------------ C7
\* C7: exec, query or begin issued on a dead pool fails at once with the
\* dead-pool error; it changes neither the pool nor the connection counter
\* and starts no checkout, connect or driver call.
C7_DeadPoolRejects ==
  [][\A p \in Procs :
       (pool.deadError /\ Call(p)) =>
         /\ proc'[p].pc = "done" /\ proc'[p].result = "dead"
         /\ proc'[p].conn = NoConn
         /\ pool' = pool
         /\ curConnID' = curConnID]_vars

\* A call rejected by a pool that was closed before it ever connected.
C7_Witness ==
  \E p \in Procs :
    /\ pool.deadError /\ curConnID = 0
    /\ proc[p].pc = "done" /\ proc[p].result = "dead"
    /\ \A q \in Procs : proc[q].pc \in {"idle", "done"}

\* ------------------------------------------------------------------ C9
\* C9: a checkout suspended at the Wait Gate whose context is cancelled
\* leaves the gate: it fails with the context's error (with the dead-pool
\* error if the pool is closed meanwhile), or holds a connection that was
\* handed back meanwhile.
C9_CancelReleasesWaiter ==
  \A p \in Procs :
    (proc[p].pc = "waiting" /\ p \in pool.sema.waiters /\ proc[p].ctxErr)
      ~> \/ proc[p].pc = "done" /\ proc[p].result \in {"ctx", "dead"}
         \/ proc[p].pc = "driver"

\* ----------------------------------------------------------------- C10
\* C10: a checkout that starts with a cancelled context takes an idle
\* record if there is one; otherwise it fails with the context's error
\* without waiting at the gate, without connecting, pool state unchanged.
C10_CancelledAtStart ==
  [][\A p \in Procs :
       (~pool.deadError /\ Call(p) /\ proc'[p].ctxErr) =>
         IF pool.idleConnections # {}
         THEN /\ proc'[p].pc = "driver"
              /\ proc'[p].conn \in pool.idleConnections
              /\ pool'.checkedOut[proc'[p].conn]
         ELSE /\ proc'[p].pc = "done" /\ proc'[p].result = "ctx"
              /\ pool' = pool
              /\ curConnID' = curConnID]_vars

\* A cancelled checkout that failed at once at a pool that is at capacity
\* with its connection held by an open adapter of the other caller.
C10_Witness ==
  \E p, q \in Procs :
    /\ proc[p].pc = "done" /\ proc[p].result = "ctx" /\ proc[p].ctxErr
    /\ pool.options.maxConnections # Undefined
    /\ pool.numConnections >= pool.options.maxConnections
    /\ pool.idleConnections = {} /\ curConnID = 1
    /\ proc[q].pc \in {"rows", "tx"} /\ ~proc[q].done /\ ~proc[q].returned

\* ------------------------------------------------------------------ C8
\* The scenario of C8: a pool created with maxConnections = 1 and the other
\* options at their defaults, used by two callers that only issue
\* query(); no context is cancelled and the pool is not closed.
ScenarioCallers == {1, 2}

ScenarioInit ==
  /\ pool = constructor([idleConnections |-> Undefined, maxConnections |-> 1])
  /\ curConnID = 0
  /\ proc = [p \in Procs |-> InitProc]
  /\ faults = {}

ScenarioNext ==
  \/ \E p \in ScenarioCallers : CallWith(p, "query", FALSE)
  \/ \E p \in ScenarioCallers : Resume(p)
  \/ \E p \in ScenarioCallers, ok \in BOOLEAN : ConnectResolve(p, ok)
  \/ \E p \in ScenarioCallers : AfterOpen(p)
  \/ \E p \in ScenarioCallers, ok \in BOOLEAN, n \in 0 .. MaxRows :
       DriverResolve(p, ok, n)
  \/ \E p \in ScenarioCallers, eager \in BOOLEAN : RowsNext(p, eager)
  \/ \E p \in ScenarioCallers : RowsNextResolve(p)
  \/ \E p \in ScenarioCallers : RowsClose(p)
  \/ \E p \in ScenarioCallers : RowsCloseResolve(p)

\* As Fairness, for the promises of the scenario.
ScenarioFairness ==
  \A p \in ScenarioCallers :
    /\ WF_vars(Resume(p))
    /\ WF_vars(\E ok \in BOOLEAN : ConnectResolve(p, ok))
    /\ WF_vars(AfterOpen(p))
    /\ WF_vars(\E ok \in BOOLEAN, n \in 0 .. MaxRows : DriverResolve(p, ok, n))
    /\ WF_vars(RowsNextResolve(p))
    /\ WF_vars(RowsCloseResolve(p))

ScenarioSpec == ScenarioInit /\ [][ScenarioNext]_vars /\ ScenarioFairness

\* Caller p holds the pool's only connection inside an open row stream.
HoldsOnlyConnection(p) ==
  /\ proc[p].pc = "rows" /\ ~proc[p].done
  /\ pool.numConnections = 1
  /\ pool.allConnections = {proc[p].conn}

\* A query() issued while the other caller holds the only connection blocks
\* at the gate and starts no connect.
C8_SecondCallerBlocks ==
  \A p, q \in ScenarioCallers :
    (p # q /\ HoldsOnlyConnection(p) /\ CallWith(q, "query", FALSE)) =>
      /\ proc'[q].pc = "waiting"
      /\ q \in pool'.sema.waiters
      /\ pool'.numConnections = 1
      /\ curConnID' = curConnID

FailurePathStep(p) ==
  \E ok \in BOOLEAN, n \in 0 .. MaxRows :
    /\ DriverResolve(p, ok, n)
    /\ (proc[p].op = "exec" \/ ~ok)

\* Such a step finds the record checked out and leaves it returned (idle,
\* or trimmed), with the call settled and no fault raised.
C11_StepReturns ==
  \A p \in Procs :
    FailurePathStep(p) =>
      /\ pool.checkedOut[proc[p].conn]
      /\ ~pool'.checkedOut[proc[p].conn]
      /\ proc[p].conn \notin pool.idleConnections
      /\ (proc[p].conn \in pool'.idleConnections \/ pool'.removed[proc[p].conn])
      /\ proc'[p].pc = "done"
      /\ proc'[p].result \in {"ok", "driverErr"}
      /\ (proc'[p].result = "ok" => proc[p].op = "exec")
      /\ faults' = faults

\* C11: the step that settles an exec of the pool (success or failure), or
\* that settles a failed query or begin, is the step that hands the
\* connection back: when the caller has its result or error the record is
\* no longer checked out, it went through __returnConnection without a
\* fault, and the caller holds no adapter for it.
C11_ReturnedOnFailurePath == [][C11_StepReturns]_vars

\* A failed query and a failed exec, both settled, both connections back.
C11_Witness ==
  \E p, q \in Procs :
    /\ proc[p].pc = "done" /\ proc[p].op = "query"
    /\ proc[p].result = "driverErr" /\ proc[p].conn # NoConn
    /\ proc[q].pc = "done" /\ proc[q].op = "exec"
    /\ proc[q].result = "driverErr" /\ proc[q].conn # NoConn
    /\ \A c \in ConnIDs : ~pool.checkedOut[c]

\* ----------------------------------------------------------------- C12
\* The step in which the driver fails caller p's exec or query.
FailedExecQueryStep(p) ==
  /\ proc[p].op \in {"exec", "query"}
  /\ \E n \in 0 .. MaxRows : DriverResolve(p, FALSE, n)

\* C12 as stated: after a failed exec/query, under every configuration, the
\* connection that was used is still in allConnections, not removed and not
\* closed.
C12_MemberAfterError ==
  [][\A p \in Procs :
       FailedExecQueryStep(p) =>
         /\ proc[p].conn \in pool'.allConnections
         /\ ~pool'.removed[proc[p].conn]
         /\ pool'.closeCalls[proc[p].conn] = 0]_vars

\* A failed exec/query returns the connection exactly as a successful exec
\* does; the record stays in the pool, idle, when the idle count before the
\* return is below the idle target, and it leaves the pool only when the
\* idle count had reached the target, i.e. by idle trimming.
C12_StepReturnsNotRemoves ==
  \A p \in Procs :
    FailedExecQueryStep(p) =>
      LET c == proc[p].conn
      IN /\ pool' = returnConnection(pool, c).pool
         /\ returnConnection(pool, c).fault = "none"
         /\ pool.numIdleConnections < pool.options.idleConnections =>
              /\ c \in pool'.allConnections
              /\ c \in pool'.idleConnections
              /\ ~pool'.removed[c]
              /\ pool'.closeCalls[c] = 0
         /\ c \notin pool'.allConnections =>
              /\ pool.numIdleConnections >= pool.options.idleConnections
              /\ pool'.removed[c]
              /\ pool'.closeCalls[c] = 1

\* C12 (amended): a driver error from exec or query triggers the ordinary
\* return of the connection; the connection is still a member of the pool
\* (in allConnections, idle, not removed, not closed) whenever the idle
\* count before the return was below idleConnections; otherwise idle
\* trimming may remove and close it, as after a successful call.
C12_ReturnedNotRemoved == [][C12_StepReturnsNotRemoves]_vars

\* A failed exec or query whose connection sits idle in the pool.
C12_Witness ==
  \E p \in Procs :
    /\ proc[p].pc = "done" /\ proc[p].op \in {"exec", "query"}
    /\ proc[p].result = "driverErr" /\ proc[p].conn # NoConn
    /\ proc[p].conn \in pool.idleConnections
    /\ proc[p].conn \in pool.allConnections
    /\ ~pool.removed[proc[p].conn]
    /\ pool.closeCalls[proc[p].conn] = 0

\* ----------------------------------------------------------------- C13
\* A pool.close() step sets the dead flag and closes the gate, changes no
\* other field of the pool, and changes nothing at all on a dead pool.
C13_CloseStep ==
  PoolClose =>
    /\ pool'.deadError
    /\ pool'.sema = [waiters |-> {}, closed |-> TRUE]
    /\ pool' = [pool EXCEPT !.deadError = TRUE, !.sema = pool'.sema]
    /\ pool'.closeCalls = pool.closeCalls
    /\ pool.deadError => pool' = pool

\* No step clears the dead flag or reopens the gate.
C13_Terminal ==
  pool.deadError => pool'.deadError /\ pool'.sema.closed

\* On a dead pool a checked-out connection is still taken back by
\* __returnConnection, without a fault, and trimmed to the idle target.
C13_ReturnAfterClose ==
  \A c \in ConnIDs :
    (pool.deadError /\ pool.checkedOut[c] /\ ~pool'.checkedOut[c]) =>
      /\ pool' = returnConnection(pool, c).pool
      /\ faults' = faults
      /\ pool'.numIdleConnections <= pool'.options.idleConnections
      /\ (c \in pool'.idleConnections \/ pool'.closeCalls[c] = 1)

\* C13: pool.close() is idempotent and terminal and touches only the dead
\* flag and the Wait Gate: the first call sets deadError and closes the
\* gate, later calls change nothing, deadError is never cleared, the
\* connection maps, counters and checked-out flags are left alone and no
\* driver close is issued; connections still checked out are returned and
\* trimmed normally afterwards.
C13_CloseIdempotentTerminal ==
  [][C13_CloseStep /\ C13_Terminal /\ C13_ReturnAfterClose]_vars

\* A dead pool with one connection idle and another still held by an open
\* row stream or transaction.
C13_Witness ==
  /\ pool.deadError /\ pool.sema.closed
  /\ pool.idleConnections # {}
  /\ \E p \in Procs :
       /\ proc[p].pc \in {"rows", "tx"}
       /\ ~proc[p].done /\ ~proc[p].returned
       /\ pool.checkedOut[proc[p].conn]
       /\ proc[p].conn \in pool.allConnections

\* ----------------------------------------------------------------- C14
\* Caller p holds connection c: its driver call on c is in flight, or it has
\* the row stream or transaction adapter of c and the adapter has not given
\* c back.
Holds(p, c) ==
  /\ proc[p].conn = c
  /\ \/ proc[p].pc = "driver"
     \/ proc[p].pc = "rows" /\ ~proc[p].done
     \/ proc[p].pc = "tx" /\ ~proc[p].returned

\* The records of the pool whose checkedOut flag is set.
CheckedOutConns == {c \in pool.allConnections : pool.checkedOut[c]}

\* C14: every record in allConnections is either idle or checked out by
\* exactly one holder, never both and never neither; numIdleConnections
\* plus the number of checked-out records equals numConnections; no
\* connection is held by two callers at once.
C14_ExclusiveOwnership ==
  /\ \A c \in pool.allConnections :
       /\ (c \in pool.idleConnections) # pool.checkedOut[c]
       /\ pool.checkedOut[c] =>
            Cardinality({p \in Procs : Holds(p, c)}) = 1
       /\ c \in pool.idleConnections => \A p \in Procs : ~Holds(p, c)
  /\ pool.numIdleConnections + Cardinality(CheckedOutConns)
       = pool.numConnections
  /\ \A p, q \in Procs, c \in ConnIDs :
       Holds(p, c) /\ Holds(q, c) => p = q

\* Two connections: one idle again after its caller's exec, the other
\* checked out by an open transaction.
C14_Witness ==
  \E p, q \in Procs, c, d \in ConnIDs :
    /\ p # q /\ c # d
    /\ pool.allConnections = {c, d}
    /\ c \in pool.idleConnections /\ ~pool.checkedOut[c]
    /\ Holds(p, d) /\ proc[p].pc = "tx"
    /\ proc[q].pc = "done" /\ proc[q].op = "exec"
    /\ proc[q].conn = c /\ proc[q].result = "ok"

\* ----------------------------------------------------------------- C15
\* C15: numConnections is the size of allConnections and
\* numIdleConnections the size of idleConnections; idleConnections is a
\* subset of allConnections; every idle record has checkedOut and removed
\* false; no removed record is in either map.
C15_CountersAndMaps ==
  /\ pool.numConnections = Cardinality(pool.allConnections)
  /\ pool.numIdleConnections = Cardinality(pool.idleConnections)
  /\ pool.idleConnections \subseteq pool.allConnections
  /\ \A c \in pool.idleConnections :
       ~pool.checkedOut[c] /\ ~pool.removed[c]
  /\ \A c \in ConnIDs :
       pool.removed[c] =>
         c \notin pool.allConnections /\ c \notin pool.idleConnections

\* One connection trimmed away, one idle, none checked out.
C15_Witness ==
  \E c, d \in ConnIDs :
    /\ pool.removed[c] /\ pool.closeCalls[c] = 1
    /\ pool.allConnections = {d} /\ pool.idleConnections = {d}
    /\ pool.numConnections = 1 /\ pool.numIdleConnections = 1

\* ----------------------------------------------------------------- C16
\* A step that returns a connection (some record's checkedOut flag falls)
\* ends with the idle count at most the idle target, and exactly at the
\* target when the return pushed it above.
C16_ReturnTrims ==
  (\E c \in ConnIDs : pool.checkedOut[c] /\ ~pool'.checkedOut[c]) =>
    /\ pool'.numIdleConnections <= pool'.options.idleConnections
    /\ pool.numIdleConnections + 1 > pool.options.idleConnections =>
         pool'.numIdleConnections = pool'.options.idleConnections

\* Closes go to trimmed records only: a record is closed once, after it
\* left both maps, and a connection that is checked out or held by a caller
\* has not been removed or closed.
C16_ClosedOnlyTrimmed ==
  /\ pool.closedInPool = {}
  /\ \A c \in ConnIDs :
       /\ pool.closeCalls[c] = (IF pool.removed[c] THEN 1 ELSE 0)
       /\ pool.removed[c] =>
            /\ ~pool.checkedOut[c]
            /\ c \notin pool.allConnections \cup pool.idleConnections
            /\ \A p \in Procs : ~Holds(p, c)

\* A record is removed and closed in a step that finds it idle, never one
\* that finds it checked out by somebody other than the returning caller.
C16_TrimTakesIdle ==
  \A c \in ConnIDs :
    (~pool.removed[c] /\ pool'.removed[c]) =>
      /\ pool'.closeCalls[c] = 1
      /\ \/ c \in pool.idleConnections
         \/ /\ pool.checkedOut[c]
            /\ pool' = returnConnection(pool, c).pool

\* C16: when a return completes numIdleConnections is at most the idle
\* target (brought down to exactly idleConnections if it exceeded it);
\* every trimmed record is out of allConnections and idleConnections before
\* its driver close is issued and receives exactly one close; no
\* checked-out connection is ever trimmed or closed.
C16_IdleTrimming ==
  []C16_ClosedOnlyTrimmed /\ [][C16_ReturnTrims /\ C16_TrimTakesIdle]_vars

\* Idle target 1: one connection trimmed and closed once, the other idle.
C16_Witness ==
  \E c, d \in ConnIDs :
    /\ pool.options.idleConnections = 1
    /\ pool.removed[c] /\ pool.closeCalls[c] = 1
    /\ c \notin pool.closedInPool
    /\ pool.idleConnections = {d} /\ pool.numIdleConnections = 1
    /\ \A p \in Procs : proc[p].pc = "done" /\ proc[p].conn \in {c, d}

\* ----------------------------------------------------------------- C17
\* C17: the pop that follows a successful __openAdditionalConnection always
\* finds the connection just registered; the error `DB pool cannot open
\* additional connection` is never raised.
C17_OpenThenPopSucceeds ==
  /\ "cannotOpen" \notin faults
  /\ \A p \in Procs : proc[p].result # "cannotOpen"

\* ----------------------------------------------------------------- C18
\* The Semaphore class on its own, driven by arbitrary wait / signal / close
\* calls of NumCallers + 1 tasks.  A task with pc = "waiting" is suspended
\* while it is in sema.waiters and has its continuation queued once it is
\* not; iter is the parity of its completed waits.
GateProcs == 1 .. NumCallers + 1

GateInit ==
  /\ pool = constructor([idleConnections |-> Undefined,
                         maxConnections |-> Undefined])
  /\ curConnID = 0
  /\ proc = [p \in GateProcs |-> InitProc]
  /\ faults = {}

\* Semaphore.wait called by task p.
GateWait(p) ==
  /\ proc[p].pc = "idle"
  /\ pool' = [pool EXCEPT !.sema = wait(@, p)]
  /\ proc' = [proc EXCEPT ![p].pc = "waiting"]
  /\ UNCHANGED <<curConnID, faults>>

\* The continuation after `await sema.wait()` of task p.
GateWake(p) ==
  /\ proc[p].pc = "waiting"
  /\ p \notin pool.sema.waiters
  /\ proc' = [proc EXCEPT ![p].pc = "idle", ![p].iter = 1 - @]
  /\ UNCHANGED <<pool, curConnID, faults>>

\* Semaphore.signal
GateSignal ==
  /\ pool' = [pool EXCEPT !.sema = signal(@)]
  /\ UNCHANGED <<curConnID, proc, faults>>

\* Semaphore.close
GateClose ==
  /\ pool' = [pool EXCEPT !.sema = semaClose(@)]
  /\ UNCHANGED <<curConnID, proc, faults>>

GateNext ==
  \/ \E p \in GateProcs : GateWait(p)
  \/ \E p \in GateProcs : GateWake(p)
  \/ GateSignal
  \/ GateClose

GateSpec == GateInit /\ [][GateNext]_vars

\* What each step of the gate does to the waiters and the closed flag.
C18_GateStep ==
  /\ GateSignal =>
       pool'.sema.waiters = {} /\ pool'.sema.closed = pool.sema.closed
  /\ GateClose => pool'.sema = [waiters |-> {}, closed |-> TRUE]
  /\ pool.sema.closed => pool'.sema.closed
  /\ \A p \in GateProcs :
       /\ GateWait(p) =>
            IF pool.sema.closed
            THEN pool'.sema = pool.sema
            ELSE pool'.sema.waiters = pool.sema.waiters \cup {p}
       /\ p \in pool.sema.waiters =>
            /\ proc'[p].pc = "waiting"
            /\ p \notin pool'.sema.waiters =>
                 /\ pool'.sema.waiters = {}
                 /\ GateSignal \/ GateClose

\* C18: the Wait Gate is a broadcast gate.  wait() on an open gate suspends
\* the caller until the next signal() or close(); one signal() wakes every
\* waiter and leaves none registered; close() marks the gate closed for
\* good, wakes every waiter and may be repeated; wait() on a closed gate
\* does not suspend; a waiter that registers after a signal() is not woken
\* by that signal.
C18_BroadcastGate ==
  [](pool.sema.closed => pool.sema.waiters = {}) /\ [][C18_GateStep]_vars

\* Two tasks woken and not yet resumed, a third registered after the signal
\* and still suspended on the open gate.
C18_Witness ==
  \E p, q, r \in GateProcs :
    /\ p # q /\ p # r /\ q # r
    /\ ~pool.sema.closed
    /\ proc[p].pc = "waiting" /\ p \notin pool.sema.waiters
    /\ proc[q].pc = "waiting" /\ q \notin pool.sema.waiters
    /\ proc[r].pc = "waiting" /\ pool.sema.waiters = {r}

\* ----------------------------------------------------------------- C19
\* The invariant-violation faults of __tryPopConnection and
\* __returnConnection.
InvariantFaults == {"popCheckedOut", "notMember", "notCheckedOut"}

\* C19: no interleaving of the public operations raises an
\* invariant-violation fault: no pop finds a checked-out record in the idle
\* map, and no return is of a connection that is not checked out, was
\* removed, or is not a member of the pool.
C19_NoInvariantFault ==
  /\ faults \cap InvariantFaults = {}
  /\ \A p \in Procs : proc[p].result \notin InvariantFaults

\* Repeated completions on both adapters: a transaction that was committed
\* and has a rollback in flight, beside a finished row stream being closed
\* again, on a pool that trims every returned connection.
C19_Witness ==
  \E p, q \in Procs :
    /\ pool.options.idleConnections = 0
    /\ proc[p].pc = "tx" /\ proc[p].returned /\ proc[p].last = "ok"
    /\ "rollback" \in proc[p].pending
    /\ pool.removed[proc[p].conn]
    /\ proc[q].pc = "rows" /\ proc[q].done
    /\ "close" \in proc[q].pending
    /\ pool.removed[proc[q].conn]

\* ----------------------------------------------------------------- C20
\* The step in which the driver fails a commit or rollback of an open
\* handle leaves the latch, the pool and the return count as they were and
\* gives the caller the driver's error.
C20_FailedCompletionStep ==
  \A p \in Procs, k \in {"commit", "rollback"} :
    (TxResolve(p, k, FALSE) /\ ~proc[p].returned) =>
      /\ ~proc'[p].returned
      /\ proc'[p].returnCalls = proc[p].returnCalls
      /\ proc'[p].last = "driverErr"
      /\ pool' = pool
      /\ pool'.checkedOut[proc[p].conn]
      /\ faults' = faults

\* While the latch has not fired the handle is not expired: every call on it
\* is passed to the driver, and its connection stays checked out unless the
\* step is a commit or rollback succeeding on the driver.
C20_HandleStaysLive ==
  \A p \in Procs :
    (proc[p].pc = "tx" /\ ~proc[p].returned) =>
      /\ ~check(proc[p])
      /\ \A k \in TxKinds : TxCall(p, k) => k \in proc'[p].pending
      /\ \/ pool'.checkedOut[proc[p].conn] /\ ~proc'[p].returned
         \/ \E k \in {"commit", "rollback"} : TxResolve(p, k, TRUE)

====
